---- MODULE Spec2Model ----
(***************************************************************************)
(* A model of humancompatible/detect/data_handler/DataHandler.py: the      *)
(* DataHandler that encodes and decodes tables feature by feature and      *)
(* validates a change between two rows (allowed_changes).                  *)
(*                                                                         *)
(* The Feature classes (features.py) are collaborators of DataHandler and  *)
(* are modelled from their contract: Feat* operators below.                *)
(***************************************************************************)
EXTENDS Integers, Sequences, FiniteSets, TLC

\* A Contiguous feature's raw values are ContLo..ContLo+MaxVal.
MaxVal == 1
\* A table given to encode has at most MaxRows rows.
MaxRows == 2
\* causal_inc holds at most MaxCausal pairs.
MaxCausal == 1

VARIABLES
  features, target, causal_inc, greater_than,   \* the handler, set by __init__
  op, pc,                                       \* the method called, and how far it got
  pre_vals, post_vals,                          \* allowed_changes' rows
  X, normalize, one_hot,                        \* encode's (encode_all's) arguments
  M, blocks,                                    \* the encoded matrix, and each Feature's columns in it
  denormalize, encoded_one_hot, as_dataframe,   \* decode's flags
  status, result,                               \* "ok" or the error raised; the value returned
  log, curr_col                                 \* the checks or Feature.decode calls made; decode's cursor

handler == <<features, target, causal_inc, greater_than>>
chgArgs == <<pre_vals, post_vals>>
encArgs == <<X, normalize, one_hot>>
decArgs == <<denormalize, encoded_one_hot, as_dataframe>>
vars == <<features, target, causal_inc, greater_than, op, pc, pre_vals, post_vals,
          X, normalize, one_hot, M, blocks, denormalize, encoded_one_hot, as_dataframe,
          status, result, log, curr_col>>

----------------------------------------------------------------------------
(* The Feature objects a handler can be built from.  A Feature is known by  *)
(* identity (its name here); its kind and its rules are fixed at creation.  *)

Pool == {"Ct", "Ce", "Cg", "Bn"}
Targets == {"Tc", "Tg", "Tb"}

Kind(f) ==
  CASE f \in {"Ct", "Ce", "Tc"} -> "Contiguous"
    [] f \in {"Cg", "Tg"} -> "Categorical"
    [] f \in {"Bn", "Tb"} -> "Binary"

\* Bn is immutable; the others may change freely.
Modifiable(f) == f # "Bn"

\* The lower bound of a Contiguous, the category labels of a Categorical (in
\* the order of their codes) and the two values of a Binary.
ContLo == 1
ContHi == ContLo + MaxVal
CategValues == <<3, 1, 2>>
BinaryValues == <<1, 2>>

RawDomain(f) ==
  CASE Kind(f) = "Contiguous" -> ContLo..ContHi
    [] Kind(f) = "Categorical" -> {CategValues[i] : i \in DOMAIN CategValues}
    [] Kind(f) = "Binary" -> {BinaryValues[i] : i \in DOMAIN BinaryValues}

\* Position (0-based code) of a label in a list of labels.
CodeOf(labels, v) == (CHOOSE i \in DOMAIN labels : labels[i] = v) - 1

\* The label of a code; a code no label has decodes to the first label.
LabelAt(labels, code) == IF code + 1 \in DOMAIN labels THEN labels[code + 1] ELSE labels[1]

\* feature.allowed_change(pre, pos): an immutable Feature rejects any change.
FeatAllowedChange(f, pre, pos) == Modifiable(f) \/ pre = pos

\* feature.name
FeatName(f) == f

\* feature.encoding_width(one_hot)
FeatWidth(f, oh) == IF Kind(f) = "Categorical" /\ oh THEN Len(CategValues) ELSE 1

OneHot(code, k) == [i \in 1..k |-> IF i = code + 1 THEN 1 ELSE 0]

\* feature.encode of one raw value, as the numbers it contributes.  A
\* normalized Contiguous value (v - lo) / (hi - lo) is kept in units of
\* 1 / (hi - lo): the number v - lo.
FeatEncodeValue(f, v, norm, oh) ==
  CASE Kind(f) = "Contiguous" -> <<IF norm THEN v - ContLo ELSE v>>
    [] Kind(f) = "Binary" -> <<CodeOf(BinaryValues, v)>>
    [] Kind(f) = "Categorical" ->
         IF oh THEN OneHot(CodeOf(CategValues, v), Len(CategValues))
         ELSE <<CodeOf(CategValues, v)>>

\* feature.encode(v, normalize=False, one_hot=False) of one raw value.
FeatEncodeRaw(f, v) == FeatEncodeValue(f, v, FALSE, FALSE)[1]

\* feature.encode of a column: the array's elements in row-major order.
RECURSIVE FeatEncode(_, _, _, _)
FeatEncode(f, col, norm, oh) ==
  IF col = <<>> THEN <<>>
  ELSE FeatEncodeValue(f, Head(col), norm, oh) \o FeatEncode(f, Tail(col), norm, oh)

\* np.argmax of a row (0-based); 0 for a row without a 1.
ArgMax(row) ==
  IF \E i \in DOMAIN row : row[i] = 1
    THEN (CHOOSE i \in DOMAIN row : row[i] = 1 /\ \A j \in 1..(i - 1) : row[j] # 1) - 1
    ELSE 0

\* feature.decode of one row of the Feature's slice.  A slice wider than one
\* column is one-hot.  (A slice of no width, which numpy's clipped slicing can
\* hand over, decodes as the code 0.)
FeatDecodeValue(f, row, denorm) ==
  LET x == IF row = <<>> THEN 0 ELSE row[1]
  IN CASE Kind(f) = "Contiguous" -> IF denorm THEN x + ContLo ELSE x
       [] Kind(f) = "Binary" -> LabelAt(BinaryValues, x)
       [] Kind(f) = "Categorical" ->
            IF Len(row) > 1 THEN LabelAt(CategValues, ArgMax(row)) ELSE LabelAt(CategValues, x)

\* feature.decode of a slice: one value per row.
FeatDecode(f, slice, denorm) == [r \in DOMAIN slice |-> FeatDecodeValue(f, slice[r], denorm)]

\* feature.greater_than(code) of an ordered Categorical: the greater codes.
FeatGreaterThan(f, code) == {c \in 0..(Len(CategValues) - 1) : c > code}

----------------------------------------------------------------------------
(* DataHandler.allowed_changes                                              *)

NotInList == "ValueError: not in list"
InvalidType == "ValueError: invalid feature type"

\* list.index: the first position holding x; 0 stands for the ValueError.
Index(list, x) ==
  IF \E i \in DOMAIN list : list[i] = x
    THEN CHOOSE i \in DOMAIN list : list[i] = x /\ \A j \in 1..(i - 1) : list[j] # x
    ELSE 0

Min(a, b) == IF a < b THEN a ELSE b

\* Lines 311-313: the per-feature loop over zip(features, pre, post).
RECURSIVE FeatureLoop(_, _, _, _)
FeatureLoop(fs, pre, pos, i) ==
  IF i > Min(Len(fs), Min(Len(pre), Len(pos)))
    THEN [res |-> "pass", log |-> <<>>]
    ELSE IF ~FeatAllowedChange(fs[i], pre[i], pos[i])
      THEN [res |-> "False", log |-> <<<<"feature", i>>>>]
      ELSE LET rest == FeatureLoop(fs, pre, pos, i + 1)
           IN [res |-> rest.res, log |-> <<<<"feature", i>>>> \o rest.log]

\* Lines 319-324 and 333-340: did f's value "increase"; the kind switch.
Increased(f, preEnc, posEnc) ==
  CASE Kind(f) = "Categorical" -> IF posEnc \in FeatGreaterThan(f, preEnc) THEN "yes" ELSE "no"
    [] Kind(f) = "Contiguous" -> IF posEnc > preEnc THEN "yes" ELSE "no"
    [] OTHER -> InvalidType

\* CausalPair with the "if applied" of line 325 dropped: the effect must
\* increase whatever the cause did.
CausalPairAlways(fs, pre, pos, cause, effect) ==
  LET cause_i == Index(fs, cause)
      effect_i == Index(fs, effect)
  IN IF cause_i = 0 THEN NotInList
     ELSE IF Increased(cause, FeatEncodeRaw(cause, pre[cause_i]),
                       FeatEncodeRaw(cause, pos[cause_i])) = InvalidType THEN InvalidType
     ELSE IF effect_i = 0 THEN NotInList
     ELSE LET inc == Increased(effect, FeatEncodeRaw(effect, pre[effect_i]),
                                       FeatEncodeRaw(effect, pos[effect_i]))
          IN IF inc = InvalidType THEN InvalidType
             ELSE IF inc = "no" THEN "False" ELSE "pass"

\* Lines 316-340: one (cause, effect) pair: "pass", "False" or an error.
CausalPair(fs, pre, pos, cause, effect) ==
  LET cause_i == Index(fs, cause)
      effect_i == Index(fs, effect)
  IN IF cause_i = 0 THEN NotInList
     ELSE LET applied == Increased(cause, FeatEncodeRaw(cause, pre[cause_i]),
                                          FeatEncodeRaw(cause, pos[cause_i]))
          IN IF applied = InvalidType THEN InvalidType
             ELSE IF applied = "no" THEN "pass"
             ELSE IF effect_i = 0 THEN NotInList
             ELSE LET inc == Increased(effect, FeatEncodeRaw(effect, pre[effect_i]),
                                               FeatEncodeRaw(effect, pos[effect_i]))
                  IN IF inc = InvalidType THEN InvalidType
                     ELSE IF inc = "no" THEN "False" ELSE "pass"

\* Line 315: the loop over the causal pairs, ended by the first return or raise.
RECURSIVE CausalLoop(_, _, _, _, _)
CausalLoop(fs, pre, pos, pairs, j) ==
  IF j > Len(pairs)
    THEN [res |-> "pass", log |-> <<>>]
    ELSE LET r == CausalPair(fs, pre, pos, pairs[j][1], pairs[j][2])
         IN IF r # "pass"
              THEN [res |-> r, log |-> <<<<"causal", j>>>>]
              ELSE LET rest == CausalLoop(fs, pre, pos, pairs, j + 1)
                   IN [res |-> rest.res, log |-> <<<<"causal", j>>>> \o rest.log]

\* OrderingPair with >= for the > of line 344.
OrderingPairGeq(fs, pos, greater, smaller) ==
  IF Index(fs, smaller) = 0 \/ Index(fs, greater) = 0 THEN NotInList
  ELSE IF pos[Index(fs, smaller)] >= pos[Index(fs, greater)] THEN "False"
  ELSE "pass"

\* Lines 343-347: one (greater, smaller) pair, compared on the raw after-values.
OrderingPair(fs, pos, greater, smaller) ==
  IF Index(fs, smaller) = 0 \/ Index(fs, greater) = 0 THEN NotInList
  ELSE IF pos[Index(fs, smaller)] > pos[Index(fs, greater)] THEN "False"
  ELSE "pass"

\* Line 342: the loop over the ordering pairs.
RECURSIVE OrderingLoop(_, _, _, _)
OrderingLoop(fs, pos, pairs, j) ==
  IF j > Len(pairs)
    THEN [res |-> "pass", log |-> <<>>]
    ELSE LET r == OrderingPair(fs, pos, pairs[j][1], pairs[j][2])
         IN IF r # "pass"
              THEN [res |-> r, log |-> <<<<"ordering", j>>>>]
              ELSE LET rest == OrderingLoop(fs, pos, pairs, j + 1)
                   IN [res |-> rest.res, log |-> <<<<"ordering", j>>>> \o rest.log]

\* AllowedChanges with the causal loop moved before the per-feature loop.
AllowedChangesCausalFirst(fs, causal, greater, pre, pos) ==
  LET b == CausalLoop(fs, pre, pos, causal, 1)
  IN IF b.res # "pass" THEN b
     ELSE LET a == FeatureLoop(fs, pre, pos, 1)
          IN IF a.res # "pass" THEN [res |-> a.res, log |-> b.log \o a.log]
             ELSE LET c == OrderingLoop(fs, pos, greater, 1)
                  IN [res |-> IF c.res = "pass" THEN "True" ELSE c.res,
                      log |-> b.log \o a.log \o c.log]

\* Lines 310-348: "True", "False" or the error raised, with the checks made.
AllowedChanges(fs, causal, greater, pre, pos) ==
  LET a == FeatureLoop(fs, pre, pos, 1)
  IN IF a.res # "pass" THEN a
     ELSE LET b == CausalLoop(fs, pre, pos, causal, 1)
          IN IF b.res # "pass" THEN [res |-> b.res, log |-> a.log \o b.log]
             ELSE LET c == OrderingLoop(fs, pos, greater, 1)
                  IN [res |-> IF c.res = "pass" THEN "True" ELSE c.res,
                      log |-> a.log \o b.log \o c.log]

----------------------------------------------------------------------------
(* DataHandler.encode, encode_y, encode_all, decode, encoding_width         *)
(* A table or matrix is [shape |-> <<rows, columns>>, rows |-> its rows].   *)

IndexError == "IndexError: index out of bounds"
ReshapeError == "ValueError: cannot reshape array"
ConcatError == "ValueError: need at least one array to concatenate"
DimError == "ValueError: array dimensions must match"
NoTarget == "AttributeError: NoneType has no attribute encode"

NoTable == [shape |-> <<0, 0>>, rows |-> <<>>]

\* X[:, j] (j from 1)
Column(T, j) == [r \in 1..T.shape[1] |-> T.rows[r][j]]

\* X[:, :-1]
DropLastColumn(T) ==
  [shape |-> <<T.shape[1], T.shape[2] - 1>>,
   rows |-> [r \in 1..T.shape[1] |-> SubSeq(T.rows[r], 1, T.shape[2] - 1)]]

\* Whether flat.reshape(n, -1) is possible.
CanReshape(flat, n) == n > 0 /\ Len(flat) % n = 0

\* flat.reshape(n, -1): n rows of len(flat) / n columns.
Reshape(flat, n) ==
  LET w == Len(flat) \div n
  IN [r \in 1..n |-> SubSeq(flat, (r - 1) * w + 1, r * w)]

\* Lines 200-203: the loop over the Features; each one's block of columns.
RECURSIVE EncodeLoop(_, _, _, _, _)
EncodeLoop(fs, T, norm, oh, i) ==
  IF i > Len(fs) THEN [status |-> "ok", enc |-> <<>>]
  ELSE IF i > T.shape[2] THEN [status |-> IndexError, enc |-> <<>>]
  ELSE LET flat == FeatEncode(fs[i], Column(T, i), norm, oh)
       IN IF ~CanReshape(flat, T.shape[1]) THEN [status |-> ReshapeError, enc |-> <<>>]
          ELSE LET rest == EncodeLoop(fs, T, norm, oh, i + 1)
               IN [status |-> rest.status,
                   enc |-> IF rest.status = "ok"
                             THEN <<Reshape(flat, T.shape[1])>> \o rest.enc ELSE <<>>]

\* np.concatenate(arrays, axis=1) of arrays with as many rows each.
RECURSIVE Concatenate(_)
Concatenate(arrays) ==
  IF Len(arrays) = 1 THEN arrays[1]
  ELSE LET rest == Concatenate(Tail(arrays))
       IN [r \in DOMAIN arrays[1] |-> arrays[1][r] \o rest[r]]

\* The columns [from, to) of each array in the concatenation.
RECURSIVE Ranges(_, _)
Ranges(arrays, from) ==
  IF arrays = <<>> THEN <<>>
  ELSE LET w == Len(arrays[1][1])
       IN <<<<from, from + w>>>> \o Ranges(Tail(arrays), from + w)

\* Lines 199-205: encode of a two-dimensional table.
Encode(fs, T, norm, oh) ==
  LET l == EncodeLoop(fs, T, norm, oh, 1)
  IN IF l.status # "ok" THEN [status |-> l.status, value |-> NoTable, blocks |-> <<>>]
     ELSE IF l.enc = <<>> THEN [status |-> ConcatError, value |-> NoTable, blocks |-> <<>>]
     ELSE LET rows == Concatenate(l.enc)
          IN [status |-> "ok",
              value |-> [shape |-> <<T.shape[1], Len(rows[1])>>, rows |-> rows],
              blocks |-> Ranges(l.enc, 0)]

\* EncodingWidth summing the target Feature in as well.
EncodingWidthWithTarget(fs, oh) ==
  LET all == IF target = "None" THEN fs ELSE Append(fs, target)
      RECURSIVE Sum(_)
      Sum(i) == IF i > Len(all) THEN 0 ELSE FeatWidth(all[i], oh) + Sum(i + 1)
  IN Sum(1)

\* Lines 307-308: encoding_width
EncodingWidth(fs, oh) ==
  LET RECURSIVE Sum(_)
      Sum(i) == IF i > Len(fs) THEN 0 ELSE FeatWidth(fs[i], oh) + Sum(i + 1)
  IN Sum(1)

\* Line 227: encode_y, the target's encode (its elements in row-major order).
EncodeY(tgt, y, norm, oh) ==
  IF tgt = "None" THEN [status |-> NoTarget, flat |-> <<>>]
  ELSE [status |-> "ok", flat |-> FeatEncode(tgt, y, norm, oh)]

\* Lines 229-236: encode_all
EncodeAll(fs, tgt, T, norm, oh) ==
  LET e == Encode(fs, DropLastColumn(T), norm, oh)
      y == EncodeY(tgt, Column(T, T.shape[2]), norm, oh)
      ycol == [r \in DOMAIN y.flat |-> <<y.flat[r]>>]
  IN IF e.status # "ok" THEN [status |-> e.status, value |-> NoTable]
     ELSE IF y.status # "ok" THEN [status |-> y.status, value |-> NoTable]
     ELSE IF Len(ycol) # e.value.shape[1] THEN [status |-> DimError, value |-> NoTable]
     ELSE [status |-> "ok",
           value |-> [shape |-> <<e.value.shape[1], e.value.shape[2] + 1>>,
                      rows |-> Concatenate(<<e.value.rows, ycol>>)]]

\* ZeroRows never holding: decode without its short-circuit.
ZeroRowsNever(T) == FALSE

\* Line 265: X.shape[0] == 0
ZeroRows(T) == T.shape[1] = 0

\* NextCol advancing by one column whatever the width.
NextColByOne(cur, w) == cur + 1

\* Line 276: curr_col += w
NextCol(cur, w) == cur + w

\* X[:, from:to] (0-based, to exclusive), clipped to the matrix as numpy does.
Slice(T, from, to) ==
  [r \in 1..T.shape[1] |-> SubSeq(T.rows[r], from + 1, Min(to, T.shape[2]))]

\* Lines 270-276: the loop over the Features with the column cursor.
RECURSIVE DecodeLoop(_, _, _, _, _, _)
DecodeLoop(fs, T, denorm, oh, i, cur) ==
  IF i > Len(fs) THEN [dec |-> <<>>, calls |-> <<>>, cursor |-> cur]
  ELSE LET w == FeatWidth(fs[i], oh)
           d == FeatDecode(fs[i], Slice(T, cur, cur + w), denorm)
           rest == DecodeLoop(fs, T, denorm, oh, i + 1, NextCol(cur, w))
       IN [dec |-> <<d>> \o rest.dec,
           calls |-> <<<<cur, cur + w>>>> \o rest.calls,
           cursor |-> rest.cursor]

\* Lines 265-279: decode.  The value is a DataFrame (with its column labels)
\* or an ndarray.
Decode(fs, T, denorm, oh, asdf) ==
  IF ZeroRows(T)
    THEN [status |-> "ok",
          value |-> [kind |-> IF asdf THEN "DataFrame" ELSE "ndarray",
                     columns |-> IF asdf THEN [i \in DOMAIN fs |-> FeatName(fs[i])] ELSE <<>>,
                     shape |-> <<0, Len(fs)>>,
                     rows |-> <<>>],
          calls |-> <<>>, cursor |-> 0]
    ELSE LET l == DecodeLoop(fs, T, denorm, oh, 1, 0)
         IN IF l.dec = <<>>
              THEN [status |-> ConcatError, value |-> NoTable, calls |-> l.calls,
                    cursor |-> l.cursor]
              ELSE [status |-> "ok",
                    value |-> [kind |-> IF asdf THEN "DataFrame" ELSE "ndarray",
                               columns |-> IF asdf THEN [i \in DOMAIN fs |-> FeatName(fs[i])]
                                           ELSE <<>>,
                               shape |-> <<T.shape[1], Len(l.dec)>>,
                               rows |-> [r \in 1..T.shape[1] |->
                                           [i \in DOMAIN l.dec |-> l.dec[i][r]]]],
                    calls |-> l.calls, cursor |-> l.cursor]

----------------------------------------------------------------------------
(* Configurations and inputs                                                *)

DistinctPairs == {p \in Pool \X Pool : p[1] # p[2]}

\* Feature lists of no, one or two distinct Features.
FeatureLists == {<<>>} \cup {<<f>> : f \in Pool} \cup {<<p[1], p[2]>> : p \in DistinctPairs}

CausalLists == UNION {[1..k -> DistinctPairs] : k \in 0..MaxCausal}

OrderingLists == {<<>>} \cup {<<p>> : p \in DistinctPairs}

\* The rows over a feature list: one raw value of its domain per Feature.
RECURSIVE RowsOf(_)
RowsOf(fs) ==
  IF fs = <<>> THEN {<<>>}
  ELSE {Append(r, v) : r \in RowsOf(SubSeq(fs, 1, Len(fs) - 1)), v \in RawDomain(fs[Len(fs)])}

\* Lines 26-36: __init__ stores what it is given, unchecked.
Constructed(fs, tgt, causal, greater) ==
  /\ features = fs
  /\ target = tgt
  /\ causal_inc = causal
  /\ greater_than = greater
  /\ op = "__init__"
  /\ pc = "constructed"
  /\ pre_vals = <<>>
  /\ post_vals = <<>>
  /\ X = NoTable
  /\ normalize = FALSE
  /\ one_hot = FALSE
  /\ M = NoTable
  /\ blocks = <<>>
  /\ denormalize = FALSE
  /\ encoded_one_hot = FALSE
  /\ as_dataframe = FALSE
  /\ status = "ok"
  /\ result = "None"
  /\ log = <<>>
  /\ curr_col = 0

InitChg ==
  \E fs \in FeatureLists, causal \in CausalLists, greater \in OrderingLists :
    Constructed(fs, "None", causal, greater)

\* One call of allowed_changes on a constructed handler.  No method assigns
\* to the handler, so a later call sees what the first one saw: the model
\* follows each handler through one call.
CallAllowedChanges ==
  /\ pc = "constructed"
  /\ \E pre \in RowsOf(features), pos \in RowsOf(features) :
       LET r == AllowedChanges(features, causal_inc, greater_than, pre, pos)
       IN /\ pre_vals' = pre
          /\ post_vals' = pos
          /\ status' = IF r.res \in {"True", "False"} THEN "ok" ELSE r.res
          /\ result' = IF r.res \in {"True", "False"} THEN r.res ELSE "None"
          /\ log' = r.log
  /\ op' = "allowed_changes"
  /\ pc' = "done"
  /\ UNCHANGED <<handler, encArgs, M, blocks, decArgs, curr_col>>

NextChg == CallAllowedChanges

SpecChg == InitChg /\ [][NextChg]_vars

\* The tables of r rows and c columns over a feature list: column i holds raw
\* values of Feature i; a column past the Features holds the values of `extra`.
ColumnDomain(fs, i, extra) == IF i \in DOMAIN fs THEN RawDomain(fs[i]) ELSE extra

RECURSIVE TableRows(_, _, _)
TableRows(fs, c, extra) ==
  IF c = 0 THEN {<<>>}
  ELSE {Append(row, v) : row \in TableRows(fs, c - 1, extra), v \in ColumnDomain(fs, c, extra)}

Tables(fs, r, c, extra) ==
  {[shape |-> <<r, c>>, rows |-> rows] : rows \in [1..r -> TableRows(fs, c, extra)]}

\* What a column the handler has no Feature for holds.
Filler == {0}

\* The tables given to encode: up to MaxRows rows (none included), and one
\* column fewer, as many or one more than there are Features.
EncodeInputs(fs) ==
  UNION {Tables(fs, r, c, Filler) :
           r \in 0..MaxRows, c \in {k \in {Len(fs) - 1, Len(fs), Len(fs) + 1} : k >= 0}}

\* The matrices of no rows given to decode, of any column count up to one
\* more than the widest encoding.
EmptyMatrices(fs) == {[shape |-> <<0, c>>, rows |-> <<>>] : c \in 0..(EncodingWidth(fs, TRUE) + 1)}

InitEnc ==
  \E fs \in FeatureLists, tgt \in {"None", "Tg"} : Constructed(fs, tgt, <<>>, <<>>)

\* encode(X, normalize, one_hot) on a constructed handler.
CallEncode ==
  /\ pc = "constructed"
  /\ \E T \in EncodeInputs(features), norm \in BOOLEAN, oh \in BOOLEAN :
       LET e == Encode(features, T, norm, oh)
       IN /\ X' = T
          /\ normalize' = norm
          /\ one_hot' = oh
          /\ status' = e.status
          /\ M' = e.value
          /\ blocks' = e.blocks
          /\ pc' = IF e.status = "ok" THEN "encoded" ELSE "done"
  /\ op' = "encode"
  /\ UNCHANGED <<handler, chgArgs, decArgs, result, log, curr_col>>

\* decode(M, denormalize, encoded_one_hot, as_dataframe): of the matrix encode
\* returned, told how it was one-hot encoded, or of a matrix of no rows.
CallDecode ==
  /\ pc \in {"constructed", "encoded"}
  /\ \E T \in IF pc = "encoded" THEN {M} ELSE EmptyMatrices(features),
        denorm \in BOOLEAN,
        oh \in IF pc = "encoded" THEN {one_hot} ELSE BOOLEAN,
        asdf \in BOOLEAN :
       LET d == Decode(features, T, denorm, oh, asdf)
       IN /\ M' = T
          /\ denormalize' = denorm
          /\ encoded_one_hot' = oh
          /\ as_dataframe' = asdf
          /\ status' = d.status
          /\ result' = d.value
          /\ log' = d.calls
          /\ curr_col' = d.cursor
  /\ op' = "decode"
  /\ pc' = "done"
  /\ UNCHANGED <<handler, chgArgs, encArgs, blocks>>

\* encoding_width(one_hot) on a constructed handler.
CallEncodingWidth ==
  /\ pc = "constructed"
  /\ \E oh \in BOOLEAN :
       /\ one_hot' = oh
       /\ result' = EncodingWidth(features, oh)
  /\ op' = "encoding_width"
  /\ pc' = "done"
  /\ status' = "ok"
  /\ UNCHANGED <<handler, chgArgs, X, normalize, M, blocks, decArgs, log, curr_col>>

NextEnc == CallEncode \/ CallDecode \/ CallEncodingWidth

SpecEnc == InitEnc /\ [][NextEnc]_vars

\* The combined tables given to encode_all: the Features' columns and the
\* target's column last.
EncodeAllInputs(fs, tgt) ==
  UNION {Tables(fs, r, Len(fs) + 1, IF tgt = "None" THEN Filler ELSE RawDomain(tgt)) :
           r \in 0..MaxRows}

InitAll ==
  \E fs \in FeatureLists, tgt \in Targets \cup {"None"} : Constructed(fs, tgt, <<>>, <<>>)

\* encode_all(X_all, normalize, one_hot) on a constructed handler.
CallEncodeAll ==
  /\ pc = "constructed"
  /\ \E T \in EncodeAllInputs(features, target), norm \in BOOLEAN, oh \in BOOLEAN :
       LET e == EncodeAll(features, target, T, norm, oh)
       IN /\ X' = T
          /\ normalize' = norm
          /\ one_hot' = oh
          /\ status' = e.status
          /\ M' = e.value
  /\ op' = "encode_all"
  /\ pc' = "done"
  /\ UNCHANGED <<handler, chgArgs, blocks, decArgs, result, log, curr_col>>

NextAll == CallEncodeAll

SpecAll == InitAll /\ [][NextAll]_vars

----------------------------------------------------------------------------
(* Properties of allowed_changes                                            *)

Called == pc = "done" /\ op = "allowed_changes"

InList(f) == \E i \in DOMAIN features : features[i] = f

PairsListed(pairs) == \A j \in DOMAIN pairs : InList(pairs[j][1]) /\ InList(pairs[j][2])

Ordered(f) == Kind(f) \in {"Categorical", "Contiguous"}

CausalKindsOrdered == \A j \in DOMAIN causal_inc : Ordered(causal_inc[j][1]) /\ Ordered(causal_inc[j][2])

\* Every constraint pair names listed Features, causal pairs only ordered kinds.
ValidConfig == PairsListed(causal_inc) /\ PairsListed(greater_than) /\ CausalKindsOrdered

\* The value of a listed Feature in a row.
ValueOf(row, f) == row[CHOOSE i \in DOMAIN features : features[i] = f]

\* The rule of section 4.7: a Contiguous increased when its after-value is
\* strictly greater, a Categorical when its after-code is in greater_than of
\* its before-code.
HasIncreased(f) ==
  IF Kind(f) = "Contiguous" THEN ValueOf(post_vals, f) > ValueOf(pre_vals, f)
  ELSE CodeOf(CategValues, ValueOf(post_vals, f))
         \in FeatGreaterThan(f, CodeOf(CategValues, ValueOf(pre_vals, f)))

AllAccept == \A i \in DOMAIN features : FeatAllowedChange(features[i], pre_vals[i], post_vals[i])

CausalViolated(j) == HasIncreased(causal_inc[j][1]) /\ ~HasIncreased(causal_inc[j][2])

OrderingViolated(j) == ValueOf(post_vals, greater_than[j][2]) > ValueOf(post_vals, greater_than[j][1])

NoCausalViolated == \A j \in DOMAIN causal_inc : ~CausalViolated(j)

NoOrderingViolated == \A j \in DOMAIN greater_than : ~OrderingViolated(j)

\* The layer of a logged check.
Layer(e) == CASE e[1] = "feature" -> 1 [] e[1] = "causal" -> 2 [] e[1] = "ordering" -> 3

\* C2 (as claimed): a handler holding a causal or ordering pair that names a
\* Feature missing from the feature list never returns True or False from
\* allowed_changes: every call raises.
C2_MissingFeatureAlwaysRaises ==
  (Called /\ ~(PairsListed(causal_inc) /\ PairsListed(greater_than))) => status # "ok"

\* C3 (as claimed): with a causal pair whose cause or effect is neither
\* Categorical nor Contiguous (all pairs naming listed Features), every call
\* of allowed_changes raises the feature-kind error.
C3_UnorderedKindAlwaysRaises ==
  (Called /\ PairsListed(causal_inc) /\ PairsListed(greater_than) /\ ~CausalKindsOrdered)
    => status = InvalidType

\* C6: on a validly configured handler and rows that pass the per-feature
\* and the ordering checks, allowed_changes returns, and it returns False
\* exactly when some causal pair's cause increased while its effect did not;
\* a pair whose cause did not increase asks nothing of its effect.
C6_CausalOneDirectional ==
  (Called /\ ValidConfig /\ AllAccept /\ NoOrderingViolated)
    => /\ status = "ok"
       /\ result = "False" <=> \E j \in DOMAIN causal_inc : CausalViolated(j)

\* C6's case: a Contiguous pair (Ct -> Ce) rejects (1,1) -> (2,1).
C6_Witness ==
  /\ Called /\ ValidConfig
  /\ features = <<"Ct", "Ce">> /\ causal_inc = <<<<"Ct", "Ce">>>> /\ greater_than = <<>>
  /\ pre_vals = <<1, 1>> /\ post_vals = <<2, 1>>
  /\ result = "False"

\* C7: for every ordering pair (greater, smaller) of listed Features whose
\* 'smaller' after-value strictly exceeds the 'greater' after-value,
\* allowed_changes never returns True and, validly configured, returns False;
\* and rows that pass the per-feature and causal checks are rejected only
\* when some pair's after-values are in that order: equal after-values pass,
\* and the before-values play no part.
C7_OrderingOnAfterValues ==
  Called =>
    /\ \A j \in DOMAIN greater_than :
         (InList(greater_than[j][1]) /\ InList(greater_than[j][2]) /\ OrderingViolated(j))
           => /\ result # "True"
              /\ ValidConfig => (status = "ok" /\ result = "False")
    /\ (ValidConfig /\ AllAccept /\ NoCausalViolated)
         => (result = "False" <=> \E j \in DOMAIN greater_than : OrderingViolated(j))

\* C7's case: equal after-values pass although the before-values were in the
\* forbidden order.
C7_Witness ==
  /\ Called
  /\ features = <<"Ct", "Ce">> /\ greater_than = <<<<"Ct", "Ce">>>> /\ causal_inc = <<>>
  /\ pre_vals = <<1, 2>> /\ post_vals = <<2, 2>>
  /\ result = "True"

\* C10: validly configured, allowed_changes returns True exactly when every
\* Feature accepts its change, no causal pair is violated and no ordering
\* pair is violated; the checks are made layer by layer (per-feature, causal,
\* ordering); and once a Feature rejects, the result is False and no causal
\* or ordering pair has been looked at, whatever the constraint lists hold.
C10_ThreeLayersInOrder ==
  Called =>
    /\ ValidConfig =>
         /\ status = "ok"
         /\ result = "True" <=> (AllAccept /\ NoCausalViolated /\ NoOrderingViolated)
    /\ \A i, j \in DOMAIN log : i < j => Layer(log[i]) <= Layer(log[j])
    /\ ~AllAccept =>
         /\ status = "ok" /\ result = "False"
         /\ \A i \in DOMAIN log : log[i][1] = "feature"

\* C10's case: the immutable Bn changed, and a causal pair that would raise
\* (its cause is not in the list) was never reached.
C10_Witness ==
  /\ Called
  /\ features = <<"Bn", "Ct">> /\ causal_inc = <<<<"Cg", "Ct">>>>
  /\ pre_vals[1] # post_vals[1]
  /\ result = "False" /\ log = <<<<"feature", 1>>>>

----------------------------------------------------------------------------
(* Properties of encode, decode, encoding_width and encode_all              *)

\* encode has returned or raised.
EncodeCalled == op = "encode" /\ pc \in {"encoded", "done"}

\* decode has returned or raised, on the matrix that encode(X, ...) returned.
DecodedEncoding == op = "decode" /\ pc = "done" /\ X.shape[1] > 0

\* decode has returned or raised, on a matrix of no rows.
DecodedEmpty == op = "decode" /\ pc = "done" /\ M.shape[1] = 0

OneColumnPerFeature == X.shape[2] = Len(features)

NonEmptyTable == X.shape[1] > 0 /\ X.shape[2] > 0

FeatureNames == [i \in DOMAIN features |-> FeatName(features[i])]

\* The sum of the input Features' widths, counted from the kinds.
SumOfFeatureWidths(oh) ==
  Len(features)
    + IF oh THEN Cardinality({i \in DOMAIN features : Kind(features[i]) = "Categorical"})
                   * (Len(CategValues) - 1)
      ELSE 0

\* C1 (as claimed): encode raises whenever the table's column count differs
\* from the number of Features, be it greater or smaller; it never returns a
\* matrix.
C1_ColumnMismatchRaises ==
  (EncodeCalled /\ ~OneColumnPerFeature) => status # "ok"

\* C4 (as claimed, for handlers with a Feature): for every raw table with
\* one column per Feature and every pair of flags, encode returns and decode
\* of its matrix under the same flags reproduces the table.
C4_RoundTripEveryTable ==
  /\ (EncodeCalled /\ OneColumnPerFeature /\ Len(features) > 0) => status = "ok"
  /\ (DecodedEncoding /\ OneColumnPerFeature /\ denormalize = normalize)
       => (status = "ok" /\ result.rows = X.rows)

\* C4 (amended): for every non-empty raw table (at least one row and one
\* column) with one column per Feature and every pair of flags, encode
\* returns, and decode of its matrix under the same flags hands each Feature
\* exactly the columns its encode contributed and reproduces the table,
\* column for column in Feature order (labelled with the Feature names when
\* a DataFrame is asked for).
C4_RoundTripNonEmpty ==
  /\ (EncodeCalled /\ OneColumnPerFeature /\ NonEmptyTable) => status = "ok"
  /\ (DecodedEncoding /\ OneColumnPerFeature /\ NonEmptyTable /\ denormalize = normalize)
       => /\ status = "ok"
          /\ log = blocks
          /\ result.rows = X.rows
          /\ result.shape = X.shape
          /\ as_dataframe => result.columns = FeatureNames

\* C4's case: a Categorical between two other Features, one-hot encoded and
\* normalized, decoded back to a table with a label other than its code.
C4_Witness ==
  /\ DecodedEncoding /\ OneColumnPerFeature /\ denormalize = normalize
  /\ features = <<"Cg", "Ct">> /\ one_hot /\ normalize
  /\ X.shape = <<2, 2>> /\ X.rows[1] = <<2, 2>> /\ X.rows[2] = <<1, 1>>
  /\ M.shape[2] = Len(CategValues) + 1
  /\ result.rows = X.rows

\* C5: encoding_width(one_hot) is the sum of the input Features' widths (the
\* target's left out); a matrix encode returns for a non-empty table has that
\* many columns in every row, whatever normalize; and decode's cursor ends
\* on that number.
C5_WidthAdditivity ==
  /\ (op = "encoding_width" /\ pc = "done") => result = SumOfFeatureWidths(one_hot)
  /\ (op = "encode" /\ pc = "encoded" /\ NonEmptyTable)
       => /\ M.shape = <<X.shape[1], EncodingWidth(features, one_hot)>>
          /\ \A r \in DOMAIN M.rows : Len(M.rows[r]) = EncodingWidth(features, one_hot)
          /\ EncodingWidth(features, one_hot) = SumOfFeatureWidths(one_hot)
  /\ DecodedEncoding
       => /\ curr_col = EncodingWidth(features, encoded_one_hot)
          /\ curr_col = M.shape[2]

\* C5's case: a handler with a target and a Categorical input, one-hot.
C5_Witness ==
  /\ op = "encode" /\ pc = "encoded" /\ NonEmptyTable
  /\ target # "None" /\ one_hot
  /\ \E i \in DOMAIN features : Kind(features[i]) = "Categorical"
  /\ M.shape[2] = Len(features) + Len(CategValues) - 1

\* C9: decode of a matrix of no rows, of any column count and under any
\* flags, returns without a call of a Feature's decode: a DataFrame of no
\* rows labelled with the Feature names in order when as_dataframe, else an
\* array of shape (0, n_features).
C9_EmptyDecode ==
  DecodedEmpty
    => /\ status = "ok"
       /\ log = <<>>
       /\ result.rows = <<>>
       /\ result.shape = <<0, Len(features)>>
       /\ result.kind = IF as_dataframe THEN "DataFrame" ELSE "ndarray"
       /\ as_dataframe => result.columns = FeatureNames

\* C9's case: a matrix of no rows whose column count fits no encoding of the
\* two Features, asked for as a DataFrame.
C9_Witness ==
  /\ DecodedEmpty /\ as_dataframe /\ encoded_one_hot
  /\ features = <<"Cg", "Ct">> /\ M.shape = <<0, 1>>
  /\ result.columns = <<"Cg", "Ct">>

\* C8 (as claimed): for every combined table, flags and target kind,
\* encode_all returns a matrix of as many rows, whose leading
\* encoding_width(one_hot) columns are encode of the table without its last
\* column, followed by one column: the target's encoding of the last column.
C8_JointEncoding ==
  (op = "encode_all" /\ pc = "done" /\ target # "None" /\ NonEmptyTable /\ Len(features) > 0)
    => /\ status = "ok"
       /\ M.shape = <<X.shape[1], EncodingWidth(features, one_hot) + 1>>
       /\ \A r \in DOMAIN M.rows :
            /\ SubSeq(M.rows[r], 1, M.shape[2] - 1)
                 = Encode(features, DropLastColumn(X), normalize, one_hot).value.rows[r]
            /\ <<M.rows[r][M.shape[2]]>>
                 = FeatEncodeValue(target, X.rows[r][X.shape[2]], normalize, one_hot)

====
